---------------------------- MODULE Spec2Model ----------------------------
(***************************************************************************)
(* Model of optimize_images.py: the batch driver main() over the photos    *)
(* directory and the per-file transform optimize_image().                  *)
(*                                                                         *)
(* File names are sequences of one-character strings so that pathlib's     *)
(* suffix, with_suffix, str.lower, str.endswith and the ordering used by   *)
(* sorted() are computed the way the library computes them.                *)
(***************************************************************************)
EXTENDS Integers, Sequences, FiniteSets, TLC

(***************************************************************************)
(* Bounds of the model.                                                    *)
(***************************************************************************)
MaxTime == 2
MaxRuns == 2
MaxDim == 50
MaxMaxWidth == 2

(***************************************************************************)
(* Strings and paths.                                                      *)
(***************************************************************************)
\* Code points of the characters that occur in the modelled names.
ord ==
  [c \in {".", "G", "J", "P", "a", "b", "c", "e", "g", "j", "n", "p", "t", "w", "x"} |->
     CASE c = "." -> 46 [] c = "G" -> 71 [] c = "J" -> 74 [] c = "P" -> 80
       [] c = "a" -> 97 [] c = "b" -> 98 [] c = "c" -> 99 [] c = "e" -> 101
       [] c = "g" -> 103 [] c = "j" -> 106 [] c = "n" -> 110 [] c = "p" -> 112
       [] c = "t" -> 116 [] c = "w" -> 119 [] c = "x" -> 120]

\* str.lower() on one character.
lower_char(c) ==
  CASE c = "G" -> "g" [] c = "J" -> "j" [] c = "P" -> "p" [] OTHER -> c

\* str.lower()
lower(s) == [i \in 1..Len(s) |-> lower_char(s[i])]

\* str.rfind("."), 1-based; 0 when there is no dot.
rfind_dot(s) ==
  LET dots == {i \in 1..Len(s) : s[i] = "."}
  IN  IF dots = {} THEN 0 ELSE CHOOSE i \in dots : \A j \in dots : j <= i

\* PurePath.suffix: the text from the last dot, empty for a leading or a
\* trailing dot.
suffix(name) ==
  LET i == rfind_dot(name)
  IN  IF 1 < i /\ i < Len(name) THEN SubSeq(name, i, Len(name)) ELSE <<>>

\* str.endswith
endswith(s, tail) ==
  /\ Len(tail) <= Len(s)
  /\ SubSeq(s, Len(s) - Len(tail) + 1, Len(s)) = tail

\* A plausible slip: the output path is the input path.
with_suffix_same(name, suf) == name

\* PurePath.with_suffix: the old suffix, if any, replaced by suf.
with_suffix(name, suf) ==
  LET old == suffix(name)
  IN  IF old = <<>> THEN name \o suf
      ELSE SubSeq(name, 1, Len(name) - Len(old)) \o suf

\* Python's ordering of str, which sorted() applies to the paths of one
\* directory: lexicographic by code point, a proper prefix first.
RECURSIVE str_lt(_, _)
str_lt(a, b) ==
  IF b = <<>> THEN FALSE
  ELSE IF a = <<>> THEN TRUE
  ELSE IF ord[Head(a)] # ord[Head(b)] THEN ord[Head(a)] < ord[Head(b)]
  ELSE str_lt(Tail(a), Tail(b))

\* sorted(image_files)
RECURSIVE sorted(_)
sorted(S) ==
  IF S = {} THEN <<>>
  ELSE LET m == CHOOSE x \in S : \A y \in S \ {x} : str_lt(x, y)
       IN  <<m>> \o sorted(S \ {m})

WEBP == <<".", "w", "e", "b", "p">>

\* image_extensions, line 72.
image_extensions ==
  { <<".", "j", "p", "g">>, <<".", "j", "p", "e", "g">>, <<".", "J", "P", "G">>,
    <<".", "J", "P", "E", "G">>, <<".", "p", "n", "g">>, <<".", "P", "N", "G">> }

(***************************************************************************)
(* The directory.                                                          *)
(***************************************************************************)
A_JPG == <<"a", ".", "j", "p", "g">>
A_PNG == <<"a", ".", "p", "n", "g">>
B_JPG == <<"b", ".", "J", "P", "G">>
A_WEBP == <<"a", ".", "w", "e", "b", "p">>
B_WEBP == <<"b", ".", "w", "e", "b", "p">>
C_TXT == <<"c", ".", "t", "x", "t">>

\* The names a file of the photos directory may have in the model.
Inputs == {A_JPG, A_PNG, B_JPG}
Outputs == {A_WEBP, B_WEBP}
Names == Inputs \cup Outputs \cup {C_TXT}

NoSrc == <<>>
Absent == [exists |-> FALSE, mtime |-> 0, kind |-> "none", src |-> NoSrc]
File(t, k, s) == [exists |-> TRUE, mtime |-> t, kind |-> k, src |-> s]


\* What a file holds.  An input is "good" (it decodes, converts and encodes),
\* "corrupt" (optimize_image raises before img.save: Image.open on a file
\* that holds no image, or resize to a height of 0) or "huge" (it decodes,
\* but the WebP encoder inside img.save rejects it); "text" is a file that is
\* no image; an output is "webp", the encoding of src, or "partial", what a
\* failed save leaves behind.
InputKinds == {"good", "corrupt", "huge"}

VARIABLES
  dir_exists,       \* photos_dir.exists()
  fs,               \* the files of the photos directory, by name
  now,              \* the filesystem clock
  pc,               \* where main() is: "idle", "loop", "done", "raised"
  runs,             \* runs of main() started so far
  files,            \* sorted(image_files) of the run
  idx,              \* position of the for loop in files
  optimized_count,
  skipped_count,
  console,          \* the last block main() printed
  status,           \* per file, the branch the loop took for it in this run
  invoked,          \* files optimize_image was called for in this run
  written,          \* paths the run opened for writing
  fs0,              \* the directory as the run found it
  t0,               \* the clock when the run started
  touched,          \* the inputs touched since the previous run ended
  was_fresh,        \* every output was newer than its input before the touch
  ipc,              \* where optimize_image() is, for the transform alone
  img,              \* the image optimize_image holds
  src_img,          \* the image the input file holds
  max_width,        \* its max_width argument
  result            \* what optimize_image returned

batch_vars ==
  <<dir_exists, fs, now, pc, runs, files, idx, optimized_count, skipped_count,
    console, status, invoked, written, fs0, t0, touched, was_fresh>>
image_vars == <<ipc, img, src_img, max_width, result>>
vars == <<batch_vars, image_vars>>

(***************************************************************************)
(* main(): enumeration and the skip test.                                  *)
(***************************************************************************)
\* A plausible slip: the existence test is dropped.
photos_dir_exists_unchecked(d) == TRUE

\* photos_dir.exists(), line 67.
photos_dir_exists(d) == d

\* The filter of the list comprehension, lines 73-74.
is_image_file(name) ==
  /\ lower(suffix(name)) \in image_extensions
  /\ ~endswith(name, WEBP)

\* photos_dir.iterdir() filtered, lines 73-74.
image_files(dir) == {n \in Names : dir[n].exists /\ is_image_file(n)}

\* Plausible slips in the comparison of line 92.
should_skip_not_older(dir, img_file, webp_path) ==
  dir[webp_path].exists /\ dir[webp_path].mtime >= dir[img_file].mtime
should_skip_older(dir, img_file, webp_path) ==
  dir[webp_path].exists /\ dir[webp_path].mtime < dir[img_file].mtime
should_skip_never(dir, img_file, webp_path) == FALSE

\* Lines 91-92: the WebP exists and is newer.
should_skip(dir, img_file, webp_path) ==
  dir[webp_path].exists /\ dir[webp_path].mtime > dir[img_file].mtime

\* A plausible slip: the skip is not counted.
skipped_after_same(count) == count

\* Line 94.
skipped_after(count) == count + 1

\* A plausible slip: the result of optimize_image is not tested.
optimized_after_always(count, ok) == count + 1

\* Lines 98-99.
optimized_after(count, ok) == IF ok THEN count + 1 ELSE count

(***************************************************************************)
(* optimize_image() as main() sees it: what it does to the directory.      *)
(***************************************************************************)
\* Lines 25-46 run through: Image.open, the conversion and the resize raise
\* nothing.
open_ok(file) == file.kind \in {"good", "huge"}

\* The encoder's verdict inside img.save, line 49.
encode_ok(file) == file.kind = "good"

\* A plausible slip: nothing is saved.
save_ok_nothing(dir, output_path, input_path, t) == dir

\* img.save(output_path, 'WEBP', ...) returning, line 49.
save_ok(dir, output_path, input_path, t) ==
  [dir EXCEPT ![output_path] = File(t, "webp", input_path)]

\* img.save raising in the encoder, line 49: the library has opened the
\* output for writing by then.  It leaves the truncated file, or (newer
\* releases) removes it when the call created it.
save_failed(dir, output_path, t) ==
  {[dir EXCEPT ![output_path] = File(t, "partial", NoSrc)]}
    \cup (IF dir[output_path].exists THEN {}
          ELSE {[dir EXCEPT ![output_path] = Absent]})


(***************************************************************************)
(* Floating point.  ratio = max_width / img.width and img.height * ratio   *)
(* are IEEE 754 binary64 operations, each rounded to nearest, ties to      *)
(* even; int() truncates.  A float 0 < x is its 53-bit significand and the *)
(* position p of its leading bit:                                          *)
(*     x = (d1 * 2^35 + d2 * 2^17 + d3) * 2^-(p + 52)                      *)
(* with the significand cut into d1 (18 bits), d2 (18 bits) and d3 (17     *)
(* bits) so that every intermediate value fits a machine integer.          *)
(***************************************************************************)
\* The position of the first 1 after the binary point of a / b, 0 < a < b.
RECURSIVE lead_pos(_, _)
lead_pos(a, b) == IF 2 * a >= b THEN 1 ELSE 1 + lead_pos(2 * a, b)

\* int.bit_length()
RECURSIVE bit_length(_)
bit_length(n) == IF n = 0 THEN 0 ELSE 1 + bit_length(n \div 2)

\* a / b for integers 0 < a < b: Python's true division, correctly rounded.
float_div(a, b) ==
  LET p == lead_pos(a, b)
      r0 == a * 2^(p - 1)
      q1 == (r0 * 2^18) \div b
      r1 == (r0 * 2^18) % b
      q2 == (r1 * 2^18) \div b
      r2 == (r1 * 2^18) % b
      q3 == (r2 * 2^17) \div b
      r3 == (r2 * 2^17) % b
      up == 2 * r3 > b \/ (2 * r3 = b /\ q3 % 2 = 1)
      n3 == q3 + (IF up THEN 1 ELSE 0)
      n2 == q2 + (n3 \div 2^17)
  IN  [d1 |-> q1 + (n2 \div 2^18), d2 |-> n2 % 2^18, d3 |-> n3 % 2^17, p |-> p]

\* h * x for an integer 0 < h < 2^12 (converted exactly) and a float x: the
\* exact product, rounded to 53 bits when it has more.
float_mul(h, x) ==
  LET t3 == h * x.d3
      l3 == t3 % 2^17
      t2 == h * x.d2 + (t3 \div 2^17)
      l2 == t2 % 2^18
      t1 == h * x.d1 + (t2 \div 2^18)
      k == bit_length(t1) - 18
  IN  IF k <= 0 THEN [d1 |-> t1, d2 |-> l2, d3 |-> l3, p |-> x.p]
      ELSE LET kept == l3 \div 2^k
               guard == (l3 \div 2^(k - 1)) % 2
               sticky == l3 % 2^(k - 1) # 0
               up == guard = 1 /\ (sticky \/ kept % 2 = 1)
               n3 == kept + (IF up THEN 1 ELSE 0)
               n2 == l2 + (n3 \div 2^(17 - k))
           IN  [d1 |-> t1 + (n2 \div 2^18), d2 |-> n2 % 2^18,
                d3 |-> (n3 % 2^(17 - k)) * 2^k, p |-> x.p]

\* int(x) for a float x > 0: truncation.
float_int(x) == x.d1 \div 2^(x.p + 17)

(***************************************************************************)
(* optimize_image(): the transform.                                        *)
(***************************************************************************)
\* The modes of the images a file may hold.
Modes == {"RGB", "RGBA", "LA", "P", "L", "CMYK"}

\* Lines 28-36: transparency is flattened onto a white RGB background, any
\* other mode is converted to RGB.
convert_mode(mode) ==
  IF mode \in {"RGBA", "LA", "P"} THEN "RGB"
  ELSE IF mode # "RGB" THEN "RGB"
  ELSE mode

\* Line 39.
needs_resize(width, mw) == width > mw

\* A plausible slip: the height is rounded up.
new_height_ceil(height, width, mw) == (height * mw + width - 1) \div width

\* Lines 41-42: ratio = max_width / img.width; int(img.height * ratio).
new_height(height, width, mw) == float_int(float_mul(height, float_div(mw, width)))

\* Image.resize, line 43: raises ValueError unless both sides are positive.
resize_ok(width, height) == width >= 1 /\ height >= 1

\* The WebP encoder inside img.save, line 49: it takes no side above 16383.
encoder_accepts(width, height) == width <= 16383 /\ height <= 16383

(***************************************************************************)
(* The batch driver as a state machine.                                    *)
(***************************************************************************)
NoImage == [mode |-> "none", width |-> 0, height |-> 0]

\* The transform's variables while the batch driver is modelled.
ImageOff ==
  /\ ipc = "off"
  /\ img = NoImage
  /\ src_img = NoImage
  /\ max_width = 0
  /\ result = "none"

\* The output path of each candidate, written out: same stem, .webp.
output_of == (A_JPG :> A_WEBP) @@ (A_PNG :> A_WEBP) @@ (B_JPG :> B_WEBP)

\* The candidate files of a directory, written out.
Candidates(dir) == {n \in Inputs : dir[n].exists}

\* f's output exists and is strictly newer than f.
Newer(dir, f) ==
  dir[output_of[f]].exists /\ dir[output_of[f]].mtime > dir[f].mtime

\* Every candidate's output is strictly newer than the candidate.
Fresh(dir) == \A f \in Candidates(dir) : Newer(dir, f)

NoStatus == [n \in Names |-> "None"]

\* The clock starts at 1.  An initial file is dated 0, before the clock's
\* start, or 2, ahead of it (a camera or an archive with its clock set ahead).
InitTimes == {0, 2}

\* The directories a run may find.  c.txt stands for the files of the
\* directory that are no images.
InitDirs ==
  {d \in [Names -> {Absent}
                     \cup {File(t, k, NoSrc) : t \in InitTimes,
                                               k \in InputKinds \cup {"webp", "text"}}] :
     /\ \A n \in Inputs : d[n].exists => d[n].kind \in InputKinds
     /\ \A n \in Outputs : d[n].exists => d[n].kind = "webp"
     /\ d[C_TXT] = File(0, "text", NoSrc)}

Init ==
  /\ dir_exists \in BOOLEAN
  /\ fs \in (IF dir_exists THEN InitDirs ELSE {[n \in Names |-> Absent]})
  /\ now = 1
  /\ pc = "idle"
  /\ runs = 0
  /\ files = <<>>
  /\ idx = 1
  /\ optimized_count = 0
  /\ skipped_count = 0
  /\ console = "none"
  /\ status = NoStatus
  /\ invoked = {}
  /\ written = {}
  /\ fs0 = fs
  /\ t0 = 0
  /\ touched = {}
  /\ was_fresh = FALSE
  /\ ImageOff

\* The clock advances.
Tick ==
  /\ pc # "raised"
  /\ now < MaxTime
  /\ now' = now + 1
  /\ UNCHANGED <<dir_exists, fs, pc, runs, files, idx, optimized_count,
                 skipped_count, console, status, invoked, written, fs0, t0,
                 touched, was_fresh, image_vars>>

\* After a run somebody touches one input: its mtime becomes the current time.
Touch(f) ==
  /\ pc = "done"
  /\ runs < MaxRuns
  /\ fs[f].exists
  /\ fs' = [fs EXCEPT ![f].mtime = now]
  /\ touched' = {f}
  /\ was_fresh' = Fresh(fs)
  /\ pc' = "idle"
  /\ UNCHANGED <<dir_exists, now, runs, files, idx, optimized_count,
                 skipped_count, console, status, invoked, written, fs0, t0,
                 image_vars>>

\* main() up to the loop, lines 64-84.
Start ==
  /\ pc \in {"idle", "done"}
  /\ runs < MaxRuns
  /\ runs' = runs + 1
  /\ fs0' = fs
  /\ t0' = now
  /\ invoked' = {}
  /\ written' = {}
  /\ optimized_count' = 0
  /\ skipped_count' = 0
  /\ idx' = 1
  /\ touched' = IF pc = "done" THEN {} ELSE touched
  /\ was_fresh' = IF pc = "done" THEN FALSE ELSE was_fresh
  /\ IF ~photos_dir_exists(dir_exists)
       THEN \* lines 67-69
            /\ console' = "dir_not_found"
            /\ pc' = "done"
            /\ files' = <<>>
            /\ status' = NoStatus
     ELSE IF ~dir_exists
       THEN \* iterdir() of a missing directory raises FileNotFoundError
            /\ console' = "traceback"
            /\ pc' = "raised"
            /\ files' = <<>>
            /\ status' = NoStatus
     ELSE IF image_files(fs) = {}
       THEN \* lines 76-78
            /\ console' = "no_images"
            /\ pc' = "done"
            /\ files' = <<>>
            /\ status' = NoStatus
     ELSE \* lines 80-84
            /\ console' = "found"
            /\ pc' = "loop"
            /\ files' = sorted(image_files(fs))
            /\ status' = [n \in Names |->
                            IF n \in image_files(fs) THEN "Pending" ELSE "None"]
  /\ UNCHANGED <<dir_exists, fs, now, image_vars>>

\* One iteration of the loop taking the skip branch, lines 88-95.
SkipFile ==
  /\ pc = "loop"
  /\ idx <= Len(files)
  /\ LET img_file == files[idx]
         webp_path == with_suffix(img_file, WEBP)
     IN  /\ should_skip(fs, img_file, webp_path)
         /\ skipped_count' = skipped_after(skipped_count)
         /\ status' = [status EXCEPT ![img_file] = "SkippedExisting"]
  /\ idx' = idx + 1
  /\ UNCHANGED <<dir_exists, fs, now, pc, runs, files, optimized_count, console,
                 invoked, written, fs0, t0, touched, was_fresh, image_vars>>

\* One iteration of the loop calling optimize_image, lines 88-99 and 13-62.
ProcessFile ==
  /\ pc = "loop"
  /\ idx <= Len(files)
  /\ LET img_file == files[idx]
         webp_path == with_suffix(img_file, WEBP)
     IN  /\ ~should_skip(fs, img_file, webp_path)
         /\ invoked' = invoked \cup {img_file}
         /\ \/ \* Image.open raises: caught at line 60, nothing written
               /\ ~open_ok(fs[img_file])
               /\ fs' = fs
               /\ written' = written
               /\ optimized_count' = optimized_after(optimized_count, FALSE)
               /\ status' = [status EXCEPT ![img_file] = "Failed"]
            \/ \* the encoder raises inside img.save: caught at line 60
               /\ open_ok(fs[img_file])
               /\ ~encode_ok(fs[img_file])
               /\ fs' \in save_failed(fs, webp_path, now)
               /\ written' = written \cup {webp_path}
               /\ optimized_count' = optimized_after(optimized_count, FALSE)
               /\ status' = [status EXCEPT ![img_file] = "Failed"]
            \/ \* lines 25-59 run through: True is returned
               /\ open_ok(fs[img_file])
               /\ encode_ok(fs[img_file])
               /\ fs' = save_ok(fs, webp_path, img_file, now)
               /\ written' = written \cup {webp_path}
               /\ optimized_count' = optimized_after(optimized_count, TRUE)
               /\ status' = [status EXCEPT ![img_file] = "Processed"]
  /\ idx' = idx + 1
  /\ UNCHANGED <<dir_exists, now, pc, runs, files, skipped_count, console,
                 fs0, t0, touched, was_fresh, image_vars>>

\* The summary, lines 101-105.
Finish ==
  /\ pc = "loop"
  /\ idx > Len(files)
  /\ console' = "summary"
  /\ pc' = "done"
  /\ UNCHANGED <<dir_exists, fs, now, runs, files, idx, optimized_count,
                 skipped_count, status, invoked, written, fs0, t0, touched,
                 was_fresh, image_vars>>

Next ==
  \/ Tick
  \/ \E f \in Inputs : Touch(f)
  \/ Start
  \/ SkipFile
  \/ ProcessFile
  \/ Finish

Spec == Init /\ [][Next]_vars

(***************************************************************************)
(* optimize_image() alone, over the images a file may hold.                *)
(***************************************************************************)
\* The batch driver's variables while the transform is modelled.
BatchOff ==
  /\ dir_exists = FALSE
  /\ fs = [n \in Names |-> Absent]
  /\ now = 1
  /\ pc = "idle"
  /\ runs = 0
  /\ files = <<>>
  /\ idx = 1
  /\ optimized_count = 0
  /\ skipped_count = 0
  /\ console = "none"
  /\ status = NoStatus
  /\ invoked = {}
  /\ written = {}
  /\ fs0 = fs
  /\ t0 = 0
  /\ touched = {}
  /\ was_fresh = FALSE

\* A file that holds no image has mode "corrupt".
InitImage ==
  /\ BatchOff
  /\ ipc = "open"
  /\ img = NoImage
  /\ src_img \in [mode : Modes \cup {"corrupt"}, width : 1..MaxDim, height : 1..MaxDim]
  /\ max_width \in 1..MaxMaxWidth
  /\ result = "none"

\* Line 25, and the handler of lines 60-62 when it raises.
Open ==
  /\ ipc = "open"
  /\ \/ /\ src_img.mode = "corrupt"
        /\ result' = "False"
        /\ ipc' = "returned"
        /\ img' = img
     \/ /\ src_img.mode # "corrupt"
        /\ img' = src_img
        /\ ipc' = "convert"
        /\ result' = result
  /\ UNCHANGED <<batch_vars, src_img, max_width>>

\* Lines 28-36.
Convert ==
  /\ ipc = "convert"
  /\ img' = [img EXCEPT !.mode = convert_mode(img.mode)]
  /\ ipc' = "resize"
  /\ UNCHANGED <<batch_vars, src_img, max_width, result>>

\* Lines 39-46, and the handler of lines 60-62 when resize raises.
Resize ==
  /\ ipc = "resize"
  /\ \/ /\ ~needs_resize(img.width, max_width)
        /\ img' = img
        /\ ipc' = "save"
        /\ result' = result
     \/ /\ needs_resize(img.width, max_width)
        /\ resize_ok(max_width, new_height(img.height, img.width, max_width))
        /\ img' = [img EXCEPT !.width = max_width,
                              !.height = new_height(img.height, img.width, max_width)]
        /\ ipc' = "save"
        /\ result' = result
     \/ /\ needs_resize(img.width, max_width)
        /\ ~resize_ok(max_width, new_height(img.height, img.width, max_width))
        /\ img' = img
        /\ ipc' = "returned"
        /\ result' = "False"
  /\ UNCHANGED <<batch_vars, src_img, max_width>>

\* Lines 49-59, and the handler of lines 60-62 when the encoder raises.
Save ==
  /\ ipc = "save"
  /\ result' = IF encoder_accepts(img.width, img.height) THEN "True" ELSE "False"
  /\ ipc' = "returned"
  /\ UNCHANGED <<batch_vars, src_img, max_width, img>>

NextImage == Open \/ Convert \/ Resize \/ Save

SpecImage == InitImage /\ [][NextImage]_vars


(***************************************************************************)
(* Properties of the batch driver.                                         *)
(***************************************************************************)
Summary == pc = "done" /\ console = "summary"

\* C1: in the loop a file is skipped (skip count incremented, optimize_image
\* not invoked, the directory left as it is) exactly when its output exists
\* and is strictly newer than it; in every other case, equal modification
\* times and a missing output included, optimize_image is invoked for it.
C1_SkipIffStrictlyNewer ==
  [][(pc = "loop" /\ idx <= Len(files) /\ idx' = idx + 1) =>
       LET f == files[idx]
       IN  IF Newer(fs, f)
           THEN /\ status'[f] = "SkippedExisting"
                /\ skipped_count' = skipped_count + 1
                /\ invoked' = invoked
                /\ written' = written
                /\ fs' = fs
           ELSE /\ f \in invoked'
                /\ f \notin invoked
                /\ status'[f] \in {"Processed", "Failed"}
                /\ skipped_count' = skipped_count]_vars

\* C1, witness: a run that skipped one file and invoked optimize_image for
\* another one whose output existed with the same modification time.
C1_Witness ==
  /\ Summary
  /\ \E f \in Inputs, g \in Inputs :
       /\ status[g] = "SkippedExisting"
       /\ f \in invoked
       /\ fs0[output_of[f]].exists
       /\ fs0[output_of[f]].mtime = fs0[f].mtime

\* C2: when processing a file fails neither count is incremented for it and
\* the loop goes on: every candidate of the run has been handled when the
\* summary is printed, those after a failed file included.
C2_FailureContinues ==
  /\ [][(\E f \in Inputs : status[f] = "Pending" /\ status'[f] = "Failed") =>
          /\ optimized_count' = optimized_count
          /\ skipped_count' = skipped_count
          /\ pc' = "loop"]_vars
  /\ [](pc = "loop" =>
          \A k \in 1..Len(files) : (status[files[k]] = "Pending") <=> (k >= idx))
  /\ [](Summary => \A k \in 1..Len(files) : status[files[k]] # "Pending")

\* C2, witness: a finished run whose first file failed and whose later files
\* were processed and skipped.
C2_Witness ==
  /\ Summary
  /\ Len(files) = 3
  /\ status[files[1]] = "Failed"
  /\ status[files[2]] = "Processed"
  /\ status[files[3]] = "SkippedExisting"
  /\ optimized_count = 1
  /\ skipped_count = 1

Having(st) == {f \in Inputs : status[f] = st}

\* C3: at the summary every candidate is in exactly one of SkippedExisting,
\* Processed, Failed, the two counts are the numbers of skipped and processed
\* files, and optimized + skipped + failed is the number of candidates the
\* run found.
C3_CountsAddUp ==
  Summary =>
    /\ \A f \in Names \ Candidates(fs0) : status[f] = "None"
    /\ \A f \in Candidates(fs0) :
         status[f] \in {"SkippedExisting", "Processed", "Failed"}
    /\ optimized_count = Cardinality(Having("Processed"))
    /\ skipped_count = Cardinality(Having("SkippedExisting"))
    /\ optimized_count + skipped_count + Cardinality(Having("Failed"))
         = Cardinality(Candidates(fs0))
    /\ Len(files) = Cardinality(Candidates(fs0))

\* C3, witness: a finished run with one file of each kind.
C3_Witness ==
  /\ Summary
  /\ Having("Processed") # {}
  /\ Having("SkippedExisting") # {}
  /\ Having("Failed") # {}

\* C4: a run that finds every candidate's output strictly newer than the
\* candidate skips every file: skip count = number of candidates, optimized
\* count 0, optimize_image never invoked, no output rewritten.
C4_FreshRunSkipsAll ==
  (Summary /\ Fresh(fs0)) =>
    /\ skipped_count = Cardinality(Candidates(fs0))
    /\ optimized_count = 0
    /\ invoked = {}
    /\ written = {}
    /\ fs = fs0

\* C4, witness: a second run, nothing touched since the first, over the
\* outputs the first run wrote.
C4_Witness ==
  /\ Summary
  /\ runs = 2
  /\ touched = {}
  /\ Fresh(fs0)
  /\ skipped_count = 3
  /\ \E w \in Outputs : fs[w].src # NoSrc

\* C5: from a directory in which every output is strictly newer, touching one
\* input so that it is no longer older than its output makes the next run
\* invoke optimize_image for exactly that file and skip all the others.
C5_TouchedFileReprocessed ==
  \A f \in Inputs :
    (Summary /\ was_fresh /\ touched = {f} /\ ~Newer(fs0, f)) =>
      /\ invoked = {f}
      /\ \A g \in Candidates(fs0) \ {f} : status[g] = "SkippedExisting"
      /\ skipped_count = Cardinality(Candidates(fs0)) - 1

\* C5, witness: a.png touched after a run, the next run reprocessed it alone
\* and skipped a.jpg, which shares its output, and b.JPG.
C5_Witness ==
  /\ Summary
  /\ was_fresh
  /\ touched = {A_PNG}
  /\ invoked = {A_PNG}
  /\ status[A_JPG] = "SkippedExisting"
  /\ status[B_JPG] = "SkippedExisting"

\* C6 as stated: after a run every candidate has an output newer than it, or
\* was skipped or failed.
C6_OutputNewerOrSkippedOrFailed ==
  Summary =>
    \A f \in Candidates(fs0) :
      \/ Newer(fs, f)
      \/ status[f] \in {"SkippedExisting", "Failed"}

\* C6, amended: after a run every candidate was skipped, failed, or has an
\* output written during the run (its modification time is no earlier than
\* the start of the run); that output is strictly newer than the input when
\* the input's modification time is earlier than the start of the run.
C6_OutputWrittenInRun ==
  Summary =>
    \A f \in Candidates(fs0) :
      \/ status[f] \in {"SkippedExisting", "Failed"}
      \/ /\ status[f] = "Processed"
         /\ fs[output_of[f]].exists
         /\ fs[output_of[f]].mtime >= t0
         /\ (fs[f].mtime < t0 => Newer(fs, f))

\* C6, witness: a processed file older than the run, with its output newer,
\* beside a processed file dated ahead of the clock, whose output is not
\* newer.
C6_Witness ==
  /\ Summary
  /\ \E f \in Inputs, g \in Inputs :
       /\ status[f] = "Processed" /\ fs[f].mtime < t0 /\ Newer(fs, f)
       /\ status[g] = "Processed" /\ ~Newer(fs, g)

\* C8: with the photos directory missing a run ends at once with the
\* directory-not-found message: nothing enumerated, nothing written,
\* optimize_image never invoked, no summary, and main() returns normally.
C8_MissingDirectory ==
  (~dir_exists /\ runs >= 1) =>
    /\ pc = "done"
    /\ console = "dir_not_found"
    /\ files = <<>>
    /\ status = NoStatus
    /\ invoked = {}
    /\ written = {}
    /\ fs = fs0
    /\ \A n \in Names : ~fs[n].exists

\* C8, witness: a run over a missing directory has returned.
C8_Witness == ~dir_exists /\ runs >= 1 /\ pc = "done"

\* C9: no step of a run changes a candidate input (presence, contents,
\* modification time); the paths a run writes are output paths, none of them
\* the path of a candidate, and nothing else in the directory changes.
C9_InputsNeverWritten ==
  [][(pc' # "idle") =>
       /\ \A f \in Inputs : fs'[f] = fs[f]
       /\ written' \subseteq {output_of[f] : f \in Candidates(fs)}
       /\ written' \cap Candidates(fs) = {}
       /\ \A n \in Names : fs'[n] # fs[n] => n \in written']_vars

\* C9, witness: a second run has written outputs.
C9_Witness ==
  /\ Summary
  /\ runs = 2
  /\ written # {}
  /\ optimized_count >= 1

\* C10 as stated: at the end of a run the output of every optimized file holds
\* the encoding of that file, and no other candidate was processed into, or
\* skipped against, the same output path.
C10_OutputHoldsOwnEncoding ==
  Summary =>
    \A f \in Having("Processed") :
      /\ fs[output_of[f]].kind = "webp"
      /\ fs[output_of[f]].src = f
      /\ \A g \in Inputs \ {f} :
           status[g] \in {"Processed", "SkippedExisting"} =>
             output_of[g] # output_of[f]


(***************************************************************************)
(* Properties of the transform.                                            *)
(***************************************************************************)
\* n / d rounded to the nearest integer, a half rounded up.
RoundHalfUp(n, d) == (2 * n + d) \div (2 * d)

\* n / d rounded to the nearest integer, a half rounded to the even one (the
\* round() of Python).
RoundHalfEven(n, d) ==
  IF (2 * n) % d = 0 /\ ((2 * n) \div d) % 2 = 1 /\ (n \div d) % 2 = 0
    THEN n \div d
    ELSE RoundHalfUp(n, d)

Returned == ipc = "returned" /\ src_img.mode # "corrupt"

\* C7 as stated: an image wider than max_width is resized to width max_width
\* and height round(height * max_width / width), under either reading of
\* round; an image no wider than max_width keeps its size.
C7_ResizedHeightIsRounded ==
  Returned =>
    IF src_img.width > max_width
      THEN result = "True" =>
             /\ img.width = max_width
             /\ img.height \in
                  {RoundHalfUp(src_img.height * max_width, src_img.width),
                   RoundHalfEven(src_img.height * max_width, src_img.width)}
      ELSE img.width = src_img.width /\ img.height = src_img.height

\* C7, amended: an image wider than max_width is resized to width max_width
\* and height int(height * (max_width / width)), the floating-point product
\* truncated: the whole part of height * max_width / width, or one less when
\* that quotient is a whole number the product falls short of; so it is
\* round(height * max_width / width) or one less.  When it is 0 the resize
\* raises and optimize_image returns False.  An image no wider than max_width
\* keeps its size.
C7_ResizedHeightIsTruncated ==
  Returned =>
    LET n == src_img.height * max_width
        d == src_img.width
    IN  IF d > max_width
          THEN \/ /\ result = "True"
                  /\ img.width = max_width
                  /\ img.height >= 1
                  /\ \/ img.height = n \div d
                     \/ n % d = 0 /\ img.height = (n \div d) - 1
                  /\ img.height <= RoundHalfEven(n, d)
                  /\ img.height >= RoundHalfUp(n, d) - 1
               \/ /\ result = "False"
                  /\ img.width = d /\ img.height = src_img.height
                  /\ n \div d = 0 \/ (n = d)
          ELSE /\ result = "True"
               /\ img.width = d /\ img.height = src_img.height

\* C7, witness: an image was resized to a height one less than the whole
\* quotient (49 x 49 with max_width 2: 49 * (2 / 49) is 1.9999999999999998).
C7_Witness ==
  /\ Returned
  /\ result = "True"
  /\ src_img.width > max_width
  /\ (src_img.height * max_width) % src_img.width = 0
  /\ img.height = (src_img.height * max_width) \div src_img.width - 1
  /\ img.width = max_width

=============================================================================
